---- MODULE Spec2Model ----
(***************************************************************************)
(* Conversion of a Kusto DataTable (row-major serde_json values plus       *)
(* column definitions) into an arrow RecordBatch, as implemented in        *)
(* azure-kusto-data/src/arrow.rs.  One call of convert_table is unfolded   *)
(* into its steps: allocation of the column buffers, one step per row of   *)
(* the transposition, one step per column of the lazy                      *)
(* zip/map/try_for_each pipeline, and the final RecordBatch::try_new.      *)
(***************************************************************************)
EXTENDS Integers, Sequences, FiniteSets, TLC

VARIABLES table, pc, row, buffer, col, fields, columns, invoked, result

vars == <<table, pc, row, buffer, col, fields, columns, invoked, result>>

(* ------------------------------ bounds --------------------------------- *)

\* widest table and longest table of the general table family
MaxCols == 2
MaxRows == 2
\* most cells (columns times rows) of a table of the general table family
MaxCells == 4
\* longest buffer of the single-column family (all cell values)
MaxLen == 2
\* longest buffer of the float-token family
MaxFloatLen == 5

(* --------------------------- serde_json::Value ------------------------- *)

Null == [t |-> "null"]

VBool(b) == [t |-> "bool", b |-> b]

\* A JSON number: serde_json keeps it as PosInt(u64), NegInt(i64) or
\* Float(f64).  bits is the number of binary digits of its magnitude and
\* lit its literal.
VNum(repr, bits, lit) == [t |-> "num", repr |-> repr, bits |-> bits, lit |-> lit]

VStr(s) == [t |-> "str", s |-> s]

VArray(a) == [t |-> "array", a |-> a]

(* --------------------------- Option and Result ------------------------- *)

None == [some |-> FALSE]

Some(x) == [some |-> TRUE, v |-> x]

Ok(x) == [k |-> "ok", val |-> x]

Err(e) == [k |-> "err", err |-> e]

Panic(m) == [k |-> "panic", msg |-> m]

(* ------------------- serde_json::from_value, by target type ------------ *)

de_string(v) == IF v.t = "str" THEN Ok(v.s) ELSE Err("Json")

de_bool(v) == IF v.t = "bool" THEN Ok(v.b) ELSE Err("Json")

de_i32(v) ==
    IF v.t = "num" /\ v.repr # "Float" /\ v.bits <= 31 THEN Ok(v.lit) ELSE Err("Json")

de_i64(v) ==
    IF v.t = "num" /\ v.repr # "Float" /\ (v.repr = "NegInt" \/ v.bits <= 63)
    THEN Ok(v.lit)
    ELSE Err("Json")

de_f64(v) == IF v.t = "num" THEN Ok(v.lit) ELSE Err("Json")

\* Option<T>: null is None, anything else is what T's deserializer gives (inner)
de_option(v, inner) ==
    IF v.t = "null" THEN Ok(None)
    ELSE IF inner.k = "ok" THEN Ok(Some(inner.val))
    ELSE Err("Json")

\* Vec<T> from Value::Array(values), given what T's deserializer gives for
\* each element: fails as soon as one element fails
from_value_vec(elems) ==
    IF \E i \in DOMAIN elems : elems[i].k # "ok"
    THEN Err("Json")
    ELSE Ok([i \in DOMAIN elems |-> elems[i].val])

(* ------------------------ nanosecond counts ---------------------------- *)

\* A count of nanoseconds (an i128 in the code) is written as whole days d,
\* seconds of the day s and nanoseconds of the second n:
\* ((d * 86400) + s) * 10^9 + n, with 0 <= s < 86400 and 0 <= n < 10^9.
Nanos(d, s, n) == [d |-> d, s |-> s, n |-> n]

I64Max == Nanos(106751, 85636, 854775807)

I64Min == Nanos(-106752, 763, 145224192)

LeqNanos(x, y) ==
    \/ x.d < y.d
    \/ x.d = y.d /\ x.s < y.s
    \/ x.d = y.d /\ x.s = y.s /\ x.n <= y.n

\* a mutant: the upper limit of the signed 64-bit range is left out
try_into_i64_unbounded(x) == IF LeqNanos(I64Min, x) THEN Some(x) ELSE None

\* i128 -> i64: n.try_into().ok(), i64::try_from(..).ok()
try_into_i64(x) ==
    IF LeqNanos(I64Min, x) /\ LeqNanos(x, I64Max) THEN Some(x) ELSE None

(* ------------------- crate::types parsers (not in src/) ---------------- *)

\* KustoDateTime::from_str: an RFC 3339 timestamp gives the instant, held
\* as its offset from the Unix epoch; anything else fails.
KustoDateTime_from_str(s) ==
    CASE s = "2020-01-01T00:00:00Z" -> Ok(Nanos(18262, 0, 0))
      [] s = "2262-04-11T23:47:16.854775807Z" -> Ok(Nanos(106751, 85636, 854775807))
      [] s = "2262-04-11T23:47:16.854775808Z" -> Ok(Nanos(106751, 85636, 854775808))
      [] OTHER -> Err("Parse")

\* KustoDuration::from_str: [d.]hh:mm:ss gives the duration; anything else fails.
KustoDuration_from_str(s) ==
    CASE s = "00:00:01" -> Ok(Nanos(0, 1, 0))
      [] s = "106752.00:00:00" -> Ok(Nanos(106752, 0, 0))
      [] OTHER -> Err("Parse")

(* ------------------------------ arrays --------------------------------- *)

Array(data_type, data) == [data_type |-> data_type, data |-> data]

Field(name, data_type, nullable) ==
    [name |-> name, data_type |-> data_type, nullable |-> nullable]

convert_array_string(values) ==
    LET strings == from_value_vec([i \in DOMAIN values |->
                                       de_option(values[i], de_string(values[i]))])
    IN  IF strings.k # "ok" THEN Err(strings.err)
        ELSE Ok(Array("Utf8", strings.val))

datetime_cell(d) ==
    LET p == KustoDateTime_from_str(d)
    IN  IF p.k # "ok" THEN None ELSE try_into_i64(p.val)

convert_array_datetime(values) ==
    LET dates == from_value_vec([i \in DOMAIN values |-> de_string(values[i])])
    IN  IF dates.k # "ok" THEN Err(dates.err)
        ELSE Ok(Array("Timestamp",
                      [i \in DOMAIN dates.val |-> datetime_cell(dates.val[i])]))

\* a mutant: whatever is no number becomes a null
safe_map_f64_lenient(value) ==
    IF value.t = "str" /\ value.s = "Infinity" THEN Ok(Some("+inf"))
    ELSE IF value.t = "str" /\ value.s = "-Infinity" THEN Ok(Some("-inf"))
    ELSE IF value.t = "num" THEN Ok(Some(value.lit))
    ELSE Ok(None)

\* a mutant: "NaN" is kept as a float NaN
safe_map_f64_nan(value) ==
    IF value.t = "str" /\ value.s = "NaN" THEN Ok(Some("NaN"))
    ELSE IF value.t = "str" /\ value.s = "Infinity" THEN Ok(Some("+inf"))
    ELSE IF value.t = "str" /\ value.s = "-Infinity" THEN Ok(Some("-inf"))
    ELSE de_option(value, de_f64(value))

safe_map_f64(value) ==
    IF value.t = "str" /\ value.s = "NaN" THEN Ok(None)
    ELSE IF value.t = "str" /\ value.s = "Infinity" THEN Ok(Some("+inf"))
    ELSE IF value.t = "str" /\ value.s = "-Infinity" THEN Ok(Some("-inf"))
    ELSE de_option(value, de_f64(value))

convert_array_float(values) ==
    LET reals == from_value_vec([i \in DOMAIN values |-> safe_map_f64(values[i])])
    IN  IF reals.k # "ok" THEN Err(reals.err)
        ELSE Ok(Array("Float64", reals.val))

timespan_cell(s) ==
    LET p == KustoDuration_from_str(s)
    IN  IF p.k # "ok" THEN None ELSE try_into_i64(p.val)

convert_array_timespan(values) ==
    LET strings == from_value_vec([i \in DOMAIN values |-> de_string(values[i])])
    IN  IF strings.k # "ok" THEN Err(strings.err)
        ELSE Ok(Array("Duration",
                      [i \in DOMAIN strings.val |-> timespan_cell(strings.val[i])]))

convert_array_bool(values) ==
    LET bools == from_value_vec([i \in DOMAIN values |->
                                       de_option(values[i], de_bool(values[i]))])
    IN  IF bools.k # "ok" THEN Err(bools.err)
        ELSE Ok(Array("Boolean", bools.val))

\* a mutant: a value that is no 32-bit integer becomes a null
convert_array_i32_lenient(values) ==
    Ok(Array("Int32", [i \in DOMAIN values |->
                         IF de_i32(values[i]).k = "ok" THEN Some(de_i32(values[i]).val)
                         ELSE None]))

convert_array_i32(values) ==
    LET ints == from_value_vec([i \in DOMAIN values |->
                                       de_option(values[i], de_i32(values[i]))])
    IN  IF ints.k # "ok" THEN Err(ints.err)
        ELSE Ok(Array("Int32", ints.val))

convert_array_i64(values) ==
    LET ints == from_value_vec([i \in DOMAIN values |->
                                       de_option(values[i], de_i64(values[i]))])
    IN  IF ints.k # "ok" THEN Err(ints.err)
        ELSE Ok(Array("Int64", ints.val))

(* ---------------------------- convert_column --------------------------- *)

Column(name, type) == [column_name |-> name, column_type |-> type]

with_field(r, column_name, data_type) ==
    IF r.k # "ok" THEN r
    ELSE Ok([field |-> Field(column_name, data_type, TRUE), data |-> r.val])

\* a mutant: the timespan arm is missing
convert_column_no_timespan(data, column) ==
    LET column_name == column.column_name
    IN  CASE column.column_type = "String" ->
               with_field(convert_array_string(data), column_name, "Utf8")
          [] column.column_type = "Bool" ->
               with_field(convert_array_bool(data), column_name, "Boolean")
          [] column.column_type = "Int" ->
               with_field(convert_array_i32(data), column_name, "Int32")
          [] column.column_type = "Long" ->
               with_field(convert_array_i64(data), column_name, "Int64")
          [] column.column_type = "Real" ->
               with_field(convert_array_float(data), column_name, "Float64")
          [] column.column_type = "Datetime" ->
               with_field(convert_array_datetime(data), column_name, "Timestamp")
          [] OTHER -> Panic("not yet implemented")

convert_column(data, column) ==
    LET column_name == column.column_name
    IN  CASE column.column_type = "String" ->
               with_field(convert_array_string(data), column_name, "Utf8")
          [] column.column_type = "Bool" ->
               with_field(convert_array_bool(data), column_name, "Boolean")
          [] column.column_type = "Int" ->
               with_field(convert_array_i32(data), column_name, "Int32")
          [] column.column_type = "Long" ->
               with_field(convert_array_i64(data), column_name, "Int64")
          [] column.column_type = "Real" ->
               with_field(convert_array_float(data), column_name, "Float64")
          [] column.column_type = "Datetime" ->
               with_field(convert_array_datetime(data), column_name, "Timestamp")
          [] column.column_type = "Timespan" ->
               with_field(convert_array_timespan(data), column_name, "Duration")
          [] OTHER -> Panic("not yet implemented")

(* ------------------------- RecordBatch::try_new ------------------------ *)

\* arrow's validation: at least one column, as many columns as fields, every
\* column of the type of its field and of the length of the first column.
RecordBatch_try_new(schema, arrays) ==
    IF Len(arrays) = 0 \/ Len(arrays) # Len(schema)
       \/ (\E i \in DOMAIN arrays :
             \/ arrays[i].data_type # schema[i].data_type
             \/ Len(arrays[i].data) # Len(arrays[1].data))
    THEN Err("DataConversion")
    ELSE Ok([schema |-> schema, columns |-> arrays,
             num_rows |-> Len(arrays[1].data)])

(* ------------------------------- inputs -------------------------------- *)

SeqsUpTo(S, n) == UNION {[1..m -> S] : m \in 0..n}

SeqsOf(S, n) == [1..n -> S]

ColumnTypes ==
    {"String", "Bool", "Int", "Long", "Real", "Datetime", "Timespan", "Dynamic"}

\* the column definitions tables are built from: one per declared type, and
\* a second string column
ColumnDefs ==
    {Column("s", "String"), Column("b", "Bool"), Column("i", "Int"),
     Column("l", "Long"), Column("r", "Real"), Column("d", "Datetime"),
     Column("t", "Timespan"), Column("x", "Dynamic"), Column("s2", "String")}

\* the tokens of a float column
FloatTokens ==
    {VNum("Float", 1, "1.5"), VStr("NaN"), VStr("Infinity"), VStr("-Infinity"), Null}

\* every kind of cell
Cells ==
    FloatTokens \cup
    {VBool(TRUE),
     VNum("PosInt", 3, "7"), VNum("PosInt", 32, "2147483648"),
     VNum("PosInt", 64, "9223372036854775808"),
     VStr("abc"),
     VStr("2020-01-01T00:00:00Z"),
     VStr("2262-04-11T23:47:16.854775807Z"),
     VStr("2262-04-11T23:47:16.854775808Z"),
     VStr("00:00:01"), VStr("106752.00:00:00")}

\* the cells of the general table family
TableCells == {Null, VStr("abc"), VNum("PosInt", 3, "7")}

\* the rows of a table of c columns: a value that is no array, or an array
\* of up to c + 1 cells
RowsOf(c) == {Null} \cup {VArray(a) : a \in SeqsUpTo(TableCells, c + 1)}

Table(cols, rows) == [columns |-> cols, rows |-> rows]

\* tables of any shape, rows of the right width or not
TableFamily(t) ==
    \E c \in 0..MaxCols, r \in 0..MaxRows :
      /\ c * r <= MaxCells
      /\ \E cols \in SeqsOf(ColumnDefs, c), rows \in SeqsOf(RowsOf(c), r) :
            t = Table(cols, rows)

\* tables of one column, every row an array of one cell of any kind
ColumnFamily(t) ==
    \E cd \in ColumnDefs, b \in SeqsUpTo(Cells, MaxLen) :
      t = Table(<<cd>>, [i \in DOMAIN b |-> VArray(<<b[i]>>)])

\* tables of one float column over the float tokens
FloatFamily(t) ==
    \E b \in SeqsUpTo(FloatTokens, MaxFloatLen) :
      t = Table(<<Column("r", "Real")>>, [i \in DOMAIN b |-> VArray(<<b[i]>>)])

(* ---------------------------- convert_table ---------------------------- *)

Init ==
    /\ \/ TableFamily(table)
       \/ ColumnFamily(table)
       \/ FloatFamily(table)
    /\ pc = "alloc"
    /\ row = 0
    /\ buffer = <<>>
    /\ col = 0
    /\ fields = <<>>
    /\ columns = <<>>
    /\ invoked = <<>>
    /\ result = [k |-> "none"]

\* lines 123-129: the empty buffers
Allocate ==
    /\ pc = "alloc"
    /\ buffer' = [i \in 1..Len(table.columns) |-> <<>>]
    /\ pc' = IF Len(table.rows) = 0 THEN "convert" ELSE "transpose"
    /\ UNCHANGED <<table, row, col, fields, columns, invoked, result>>

\* a mutant: null values are not pushed
push_row_skip_null(buf, v) ==
    [i \in DOMAIN buf |->
       IF i <= Len(v) /\ v[i] # Null THEN Append(buf[i], v[i]) ELSE buf[i]]

\* the values of one row pushed on the buffers, by position
push_row(buf, v) ==
    [i \in DOMAIN buf |-> IF i <= Len(v) THEN Append(buf[i], v[i]) ELSE buf[i]]

\* lines 130-137: one row of the for_each
TransposeRow ==
    /\ pc = "transpose"
    /\ row < Len(table.rows)
    /\ row' = row + 1
    /\ LET r == table.rows[row + 1]
       IN  IF r.t # "array"
           THEN /\ result' = Panic("Must be an array")
                /\ pc' = "done"
                /\ buffer' = buffer
           ELSE /\ buffer' = push_row(buffer, r.a)
                /\ IF Len(r.a) > Len(buffer)
                   THEN /\ result' = Panic("index out of bounds")
                        /\ pc' = "done"
                   ELSE /\ result' = result
                        /\ pc' = IF row + 1 = Len(table.rows) THEN "convert"
                                 ELSE "transpose"
    /\ UNCHANGED <<table, col, fields, columns, invoked>>

\* a mutant: the columns are taken last to first
next_column_reversed(done) == Len(buffer) - done

\* the column the pipeline takes next
next_column(done) == done + 1

\* lines 139-148: one item of zip/map/try_for_each
ConvertNext ==
    /\ pc = "convert"
    /\ col < Len(table.columns)
    /\ LET i == next_column(col)
           r == convert_column(buffer[i], table.columns[i])
       IN  /\ invoked' = Append(invoked, i)
           /\ col' = col + 1
           /\ IF r.k = "ok"
              THEN /\ fields' = Append(fields, r.val.field)
                   /\ columns' = Append(columns, r.val.data)
                   /\ UNCHANGED <<pc, result>>
              ELSE /\ result' = r
                   /\ pc' = "done"
                   /\ UNCHANGED <<fields, columns>>
    /\ UNCHANGED <<table, row, buffer>>

\* lines 150-151: the batch
Assemble ==
    /\ pc = "convert"
    /\ col = Len(table.columns)
    /\ result' = RecordBatch_try_new(fields, columns)
    /\ pc' = "done"
    /\ UNCHANGED <<table, row, buffer, col, fields, columns, invoked>>

Next == Allocate \/ TransposeRow \/ ConvertNext \/ Assemble

Spec == Init /\ [][Next]_vars

(* ====================== vocabulary of the properties =================== *)

NCols == Len(table.columns)

NRows == Len(table.rows)

Done == pc = "done"

Last(q) == q[Len(q)]

TypeOf(i) == table.columns[i].column_type

SupportedTypes == {"String", "Bool", "Int", "Long", "Real", "Datetime", "Timespan"}

StrictTypes == {"String", "Bool", "Int", "Long"}

\* every row is an array of exactly as many values as there are columns
WellFormed ==
    \A r \in DOMAIN table.rows :
       table.rows[r].t = "array" /\ Len(table.rows[r].a) = NCols

\* every row is an array of no more values than there are columns
Transposable ==
    \A r \in DOMAIN table.rows :
       table.rows[r].t = "array" /\ Len(table.rows[r].a) <= NCols

\* the cells the rows hold at position i
ColumnCells(i) ==
    {table.rows[r].a[i] : r \in {x \in DOMAIN table.rows :
                                   table.rows[x].t = "array" /\ Len(table.rows[x].a) >= i}}

IsInteger(c) == c.t = "num" /\ c.repr \in {"PosInt", "NegInt"}

FloatSentinels == {"NaN", "Infinity", "-Infinity"}

WellFormedTimestamps ==
    {"2020-01-01T00:00:00Z", "2262-04-11T23:47:16.854775807Z",
     "2262-04-11T23:47:16.854775808Z"}

WellFormedDurations == {"00:00:01", "106752.00:00:00"}

\* the integer literals of Cells within the signed 32-bit and 64-bit ranges
I32Literals == {"7"}

I64Literals == {"7", "2147483648"}

\* a non-null cell that is a value of the declared type (section 4.2)
ValidCell(type, c) ==
    CASE type = "String" -> c.t = "str"
      [] type = "Bool" -> c.t = "bool"
      [] type = "Int" -> IsInteger(c) /\ c.lit \in I32Literals
      [] type = "Long" -> IsInteger(c) /\ c.lit \in I64Literals
      [] type = "Real" -> c.t = "num" \/ (c.t = "str" /\ c.s \in FloatSentinels)
      [] type = "Datetime" -> c.t = "str" /\ c.s \in WellFormedTimestamps
      [] type = "Timespan" -> c.t = "str" /\ c.s \in WellFormedDurations
      [] OTHER -> FALSE

\* a cell of a strict column that cannot be interpreted as the declared type
Uninterpretable(type, c) ==
    type \in StrictTypes /\ c.t # "null" /\ ~ValidCell(type, c)

\* a cell of a float column that is no number, no null and no float token
MalformedFloat(c) == c.t # "null" /\ ~ValidCell("Real", c)

\* a cell on which the coercer of a supported type returns an error
Rejected(type, c) ==
    CASE type \in StrictTypes -> Uninterpretable(type, c)
      [] type = "Real" -> MalformedFloat(c)
      [] type \in {"Datetime", "Timespan"} -> c.t # "str"
      [] OTHER -> FALSE

Fails(i) == \E c \in ColumnCells(i) : Rejected(TypeOf(i), c)

Unsupported(i) == TypeOf(i) \notin SupportedTypes

\* the least column of S, NCols + 1 if S is empty
FirstOf(S) ==
    IF S = {} THEN NCols + 1 ELSE CHOOSE i \in S : \A j \in S : i <= j

\* the lowest-index column whose coercion fails
FirstFailing == FirstOf({i \in 1..NCols : Fails(i)})

\* the lowest-index column of an unsupported declared type
FirstUnsupported == FirstOf({i \in 1..NCols : Unsupported(i)})

IsFullBatch(b) ==
    /\ Len(b.schema) = NCols
    /\ Len(b.columns) = NCols
    /\ \A i \in 1..NCols : Len(b.columns[i].data) = NRows

UpTo(n) == [i \in 1..n |-> i]

\* the arrow data type a declared type is mapped to
DataTypeOf(type) ==
    CASE type = "String" -> "Utf8"
      [] type = "Bool" -> "Boolean"
      [] type = "Int" -> "Int32"
      [] type = "Long" -> "Int64"
      [] type = "Real" -> "Float64"
      [] type = "Datetime" -> "Timestamp"
      [] type = "Timespan" -> "Duration"

\* the coercion of one value: the slot the column's coercer gives it
CoercedCell(column, c) == convert_column(<<c>>, column).val.data.data[1]

(* ================================ claims =============================== *)

\* C1: for a table whose rows are all arrays of exactly C values, with C
\* column definitions, a finished convert_table has either returned a batch
\* of exactly C fields and C arrays, every array as long as the table has
\* rows, or ended in one of the named error kinds (a conversion error, the
\* data-conversion error of the batch construction, the unimplemented-type
\* fault); before it finishes it has returned nothing.
C1_FullBatchOrNamedError ==
    WellFormed =>
      IF Done
      THEN \/ result.k = "ok" /\ IsFullBatch(result.val)
           \/ result.k = "err" /\ result.err \in {"Json", "DataConversion"}
           \/ result.k = "panic" /\ result.msg = "not yet implemented"
      ELSE result.k = "none"

\* a table of two rows and two columns converted to a full batch
C1_Witness ==
    /\ Done /\ WellFormed /\ NCols = 2 /\ NRows = 2
    /\ result.k = "ok" /\ IsFullBatch(result.val)
    /\ \E r \in DOMAIN table.rows : \E i \in 1..NCols : table.rows[r].a[i] = Null

\* C9: whenever convert_table returns a batch for a table of C columns and
\* R rows of exactly C values, field i has the name of column definition i
\* and the data type mapped from its declared type, and slot r of array i is
\* the coercion of the value at position i of row r.
C9_PositionsPreserved ==
    (Done /\ WellFormed /\ result.k = "ok") =>
      /\ IsFullBatch(result.val)
      /\ \A i \in 1..NCols :
           /\ result.val.schema[i].name = table.columns[i].column_name
           /\ result.val.schema[i].data_type = DataTypeOf(TypeOf(i))
           /\ result.val.columns[i].data_type = DataTypeOf(TypeOf(i))
           /\ \A r \in 1..NRows :
                result.val.columns[i].data[r]
                  = CoercedCell(table.columns[i], table.rows[r].a[i])

\* a batch of two differently named and typed columns and two different rows
C9_Witness ==
    /\ Done /\ WellFormed /\ result.k = "ok"
    /\ NCols = 2 /\ NRows = 2
    /\ table.columns[1] # table.columns[2]
    /\ table.rows[1] # table.rows[2]
    /\ table.rows[1].a[1] # table.rows[1].a[2]

\* some cell of a strict column cannot be interpreted as the declared type
HasStrictFailure ==
    \E i \in 1..NCols : \E c \in ColumnCells(i) : Uninterpretable(TypeOf(i), c)

\* C2, as claimed: when a cell of a string, boolean, 32-bit-int or
\* 64-bit-int column of a table of well-formed rows cannot be interpreted as
\* the declared type, the call returns a conversion error that belongs to
\* the lowest-index failing column, no coercer of a later column is invoked
\* and no batch is returned.
C2_AsClaimed ==
    (Done /\ WellFormed /\ HasStrictFailure) =>
      /\ result = Err("Json")
      /\ invoked = UpTo(FirstFailing)

\* C2, amended: the same, provided every row is an array of at most C values
\* and no column of an unsupported type precedes the lowest-index failing
\* column: the columns are coerced in order, at no moment has the coercer of
\* a column after the failing one been invoked, no batch is returned, and the
\* call ends with the conversion error of the lowest-index failing column,
\* only the columns before it having produced a field and an array.
C2_ShortCircuit ==
    (Transposable /\ HasStrictFailure /\ FirstFailing < FirstUnsupported) =>
      /\ \E n \in 0..FirstFailing : invoked = UpTo(n)
      /\ result.k # "ok"
      /\ Done => /\ result = Err("Json")
                 /\ invoked = UpTo(FirstFailing)
                 /\ Len(fields) = FirstFailing - 1
                 /\ Len(columns) = FirstFailing - 1

\* "abc" in the 32-bit-int first column of a table of two columns
C2_Witness ==
    /\ Done /\ WellFormed /\ NCols = 2 /\ NRows >= 1
    /\ TypeOf(1) = "Int" /\ TypeOf(2) \in SupportedTypes
    /\ table.rows[1].a[1] = VStr("abc")
    /\ result = Err("Json") /\ invoked = <<1>>

\* the nanosecond count, or null, a timestamp string must give
ExpectedTimestamp(s) ==
    CASE s = "2020-01-01T00:00:00Z" -> Some(Nanos(18262, 0, 0))
      [] s = "2262-04-11T23:47:16.854775807Z" -> Some(Nanos(106751, 85636, 854775807))
      [] OTHER -> None

\* the nanosecond count, or null, a duration string must give
ExpectedDuration(s) ==
    CASE s = "00:00:01" -> Some(Nanos(0, 1, 0))
      [] OTHER -> None

AllStrings == \A i \in 1..NCols : \A c \in ColumnCells(i) : c.t = "str"

\* C3: in a table of datetime and timespan columns whose cells are all
\* strings, the call succeeds with a full batch in which every cell whose
\* string fails to parse, or whose nanosecond count does not fit a signed
\* 64-bit integer, is a null at its position and every other cell is its
\* nanosecond count.
C3_TimeCellsLenient ==
    (Done /\ WellFormed /\ AllStrings /\ NCols > 0
       /\ \A i \in 1..NCols : TypeOf(i) \in {"Datetime", "Timespan"}) =>
      /\ result.k = "ok"
      /\ IsFullBatch(result.val)
      /\ \A i \in 1..NCols : \A r \in 1..NRows :
           result.val.columns[i].data[r]
             = IF TypeOf(i) = "Datetime"
               THEN ExpectedTimestamp(table.rows[r].a[i].s)
               ELSE ExpectedDuration(table.rows[r].a[i].s)

\* a datetime column holding a timestamp out of the 64-bit range and a good one
C3_Witness ==
    /\ Done /\ NCols = 1 /\ TypeOf(1) = "Datetime"
    /\ table.rows = <<VArray(<<VStr("2262-04-11T23:47:16.854775808Z")>>),
                      VArray(<<VStr("2020-01-01T00:00:00Z")>>)>>
    /\ result.k = "ok"
    /\ result.val.columns[1].data = <<None, Some(Nanos(18262, 0, 0))>>

AllReal == \A i \in 1..NCols : TypeOf(i) = "Real"

HasMalformedFloat ==
    \E i \in 1..NCols : TypeOf(i) = "Real" /\ \E c \in ColumnCells(i) : MalformedFloat(c)

FloatImage(c) ==
    CASE c = VStr("NaN") -> None
      [] c = VStr("Infinity") -> Some("+inf")
      [] c = VStr("-Infinity") -> Some("-inf")
      [] c = Null -> None
      [] c.t = "num" -> Some(c.lit)

\* C5: the array of a float column of float tokens (numbers, "NaN",
\* "Infinity", "-Infinity", null) is the cell-by-cell image of the input, in
\* order: "NaN" gives null, "Infinity" positive infinity, "-Infinity"
\* negative infinity, a number that number and null gives null.
C5_FloatImage ==
    (Done /\ WellFormed /\ NCols = 1 /\ TypeOf(1) = "Real"
       /\ \A c \in ColumnCells(1) : ~MalformedFloat(c)) =>
      /\ result.k = "ok"
      /\ result.val.columns[1].data_type = "Float64"
      /\ Len(result.val.columns[1].data) = NRows
      /\ \A r \in 1..NRows :
           result.val.columns[1].data[r] = FloatImage(table.rows[r].a[1])

\* the tokens [1.5, "NaN", "Infinity", "-Infinity", null] give
\* [1.5, null, +inf, -inf, null]
C5_Witness ==
    /\ Done /\ NCols = 1 /\ TypeOf(1) = "Real"
    /\ table.rows = <<VArray(<<VNum("Float", 1, "1.5")>>), VArray(<<VStr("NaN")>>),
                      VArray(<<VStr("Infinity")>>), VArray(<<VStr("-Infinity")>>),
                      VArray(<<Null>>)>>
    /\ result.k = "ok"
    /\ result.val.columns[1].data
         = <<Some("1.5"), None, Some("+inf"), Some("-inf"), None>>

\* C6: for a table of well-formed rows and supported column types, every
\* cell of which is null or a valid value of its column's declared type, the
\* coercers succeed and each gives exactly one slot per cell, in order, with
\* a null slot wherever the cell is null.
C6_TotalAndNullPreserving ==
    (Done /\ WellFormed /\ NCols > 0
       /\ \A i \in 1..NCols :
            /\ TypeOf(i) \in SupportedTypes
            /\ \A c \in ColumnCells(i) : c = Null \/ ValidCell(TypeOf(i), c)) =>
      /\ result.k = "ok"
      /\ IsFullBatch(result.val)
      /\ \A i \in 1..NCols : \A r \in 1..NRows :
           table.rows[r].a[i] = Null => result.val.columns[i].data[r] = None

AllSupported == \A i \in 1..NCols : TypeOf(i) \in SupportedTypes

\* C7, as claimed: a table of no rows and N > 0 columns of whatever declared
\* types converts without error to a batch of N fields and N arrays of
\* length zero.
C7_AsClaimed ==
    (Done /\ NRows = 0 /\ NCols > 0) =>
      /\ result.k = "ok"
      /\ IsFullBatch(result.val)

\* C7, amended: a table of no rows and N > 0 columns, each of a supported
\* declared type, converts without error to a batch of N fields and N
\* arrays of length zero.
C7_EmptyTable ==
    (Done /\ NRows = 0 /\ NCols > 0 /\ AllSupported) =>
      /\ result.k = "ok"
      /\ Len(result.val.schema) = NCols
      /\ Len(result.val.columns) = NCols
      /\ \A i \in 1..NCols : result.val.columns[i].data = <<>>
      /\ result.val.num_rows = 0

\* an empty table of a timespan and a string column
C7_Witness ==
    /\ Done /\ NRows = 0 /\ NCols = 2
    /\ TypeOf(1) = "Timespan" /\ TypeOf(2) = "String"
    /\ result.k = "ok"

HasUnsupported == \E i \in 1..NCols : Unsupported(i)

\* no datetime or timespan column holds a null
NoNullTimeCell ==
    \A i \in 1..NCols :
       TypeOf(i) \in {"Datetime", "Timespan"} => Null \notin ColumnCells(i)

\* C8, as claimed: a table of well-formed rows with a column of an
\* unsupported declared type ends in the unimplemented-type fault, whatever
\* the position of that column and the contents of the other columns (here
\* already for the tables whose datetime and timespan columns hold no null).
C8_AsClaimed ==
    (Done /\ WellFormed /\ NoNullTimeCell /\ HasUnsupported) =>
      result = Panic("not yet implemented")

\* C8, amended: a table with a column of an unsupported declared type never
\* converts to a batch.  It aborts in the transposition when a row is no
\* array or has more than C values; otherwise it returns the conversion
\* error of the lowest-index failing column when that column precedes the
\* first unsupported one, and otherwise aborts with the unimplemented-type
\* fault, raised by the first unsupported column.
C8_UnsupportedNeverBatch ==
    HasUnsupported =>
      /\ result.k # "ok"
      /\ Done =>
           IF ~Transposable
           THEN result.k = "panic" /\ result.msg \in {"Must be an array", "index out of bounds"}
                /\ invoked = <<>>
           ELSE IF FirstFailing < FirstUnsupported
           THEN result = Err("Json") /\ invoked = UpTo(FirstFailing)
           ELSE result = Panic("not yet implemented") /\ invoked = UpTo(FirstUnsupported)

\* the unsupported column is the second one and the first column converts
C8_Witness ==
    /\ Done /\ WellFormed /\ NCols = 2 /\ NRows = 2
    /\ TypeOf(1) = "Int" /\ Unsupported(2)
    /\ result = Panic("not yet implemented") /\ invoked = <<1, 2>>

\* C10: when some row is not an array of exactly C values, convert_table
\* never returns a batch: it aborts or fails with an error.
C10_MalformedNeverBatch ==
    (Done /\ ~WellFormed) => result.k # "ok"

====
